---- MODULE Spec2Model ----
(***************************************************************************)
(* Route optimisation pipeline of app.py: calculate_distance_matrix builds *)
(* the n x n walking-distance matrix through block queries to the Distance *)
(* Matrix service, optimize_route solves the MTZ travelling-salesman model *)
(* and assembles the Route.  Distances are integer metres.                 *)
(***************************************************************************)
EXTENDS Integers, Sequences, FiniteSets, TLC

\* ------------------------------------------------------------------ bounds
\* Most locations (station + places) of a request that is optimised.
MaxN == 4
\* Most locations of a request in the builder-only specification.
MaxLoc == 5
\* Largest BATCH_SIZE tried (the source fixes 25; scaled down here).
MaxBatch == 3
\* Most cells for which the service reports a status other than OK.
MaxBad == 1
\* Most locations of a request whose optimisation is run a second time.
MaxRerunN == 3

\* ------------------------------------------------------- program constants
\* Distance written for a cell whose status is not OK.
Sentinel == 999999

\* Place.distance_from_station before the build sets it (Python's None).
NoDistance == -1

\* ---------------------------------------------------------------- helpers
Idx(n) == 0 .. (n - 1)

Min2(a, b) == IF a < b THEN a ELSE b

CeilDiv(a, b) == (a + b - 1) \div b

RECURSIVE SumSeq(_)
SumSeq(s) == IF s = <<>> THEN 0 ELSE Head(s) + SumSeq(Tail(s))

RECURSIVE SumUpTo(_, _)
\* Sum of f[k] for k in 0..last.
SumUpTo(f, last) == IF last < 0 THEN 0 ELSE f[last] + SumUpTo(f, last - 1)

\* Sum of f[k] for k in 0..n-1 other than skip.
SumExcept(f, n, skip) == SumUpTo(f, n - 1) - f[skip]

\* ------------------------------------------------- the request's locations
\* Coordinates are opaque tokens: the station's and one per place.
StationCoord == "S"

PlaceNames == <<"A", "B", "C", "D", "E", "F">>

\* places found by search_nearby_places for a request of n locations.
PlacesOf(n) == SubSeq(PlaceNames, 1, n - 1)

\* locations = [station.to_tuple()] + [place.location.to_tuple() ...]
LocationsOf(pl) == <<StationCoord>> \o pl

\* ------------------------------------------------ Distance Matrix service
\* Walking distances the service knows, one table per scenario.  Row and
\* column k+1 belong to location k of the request.
MipTable ==
    << <<0, 100, 200>>,
       <<100, 0, 150>>,
       <<200, 150, 0>> >>

\* The same three locations, 10 km apart per 1 m: distances of 1000 km and more.
LongHaulTable ==
    << <<0, 1000000, 2000000>>,
       <<1000000, 0, 1500000>>,
       <<2000000, 1500000, 0>> >>

PythonTspTable ==
    << <<0, 98, 98, 167, 171, 346>>,
       <<98, 0, 50, 120, 140, 280>>,
       <<98, 50, 0, 100, 110, 250>>,
       <<167, 120, 100, 0, 80, 200>>,
       <<171, 140, 110, 80, 0, 150>>,
       <<346, 280, 250, 200, 150, 0>> >>

\* One-way paths: every ordered pair has its own distance, and the service
\* snaps a point to the road, so a location is a few metres from itself.
OneWayTable ==
    << <<3, 120, 310, 205, 415, 530>>,
       <<180, 4, 95, 260, 145, 390>>,
       <<270, 135, 5, 75, 230, 160>>,
       <<225, 340, 110, 6, 85, 275>>,
       <<365, 170, 250, 125, 7, 105>>,
       <<480, 355, 190, 295, 140, 8>> >>

TableOf(t) ==
    CASE t = "mip" -> MipTable
      [] t = "longhaul" -> LongHaulTable
      [] t = "python_tsp" -> PythonTspTable
      [] OTHER -> OneWayTable

TableNames(n) ==
    {t \in {"mip", "longhaul", "python_tsp", "oneway"} : Len(TableOf(t)) >= n}

\* All sets of at most k elements of S.
RECURSIVE SubsetsUpTo(_, _)
SubsetsUpTo(S, k) ==
    IF k = 0 THEN {{}}
    ELSE LET smaller == SubsetsUpTo(S, k - 1)
         IN smaller \cup {s \cup {e} : s \in smaller, e \in S}

\* A world fixes what the service answers for every pair of locations: the
\* table of distances and the pairs it cannot route (status not OK).
Worlds(n) ==
    [table : TableNames(n), bad : SubsetsUpTo(Idx(n) \X Idx(n), MaxBad)]

\* Position of coordinate c in the request's location list.
PosOf(locs, c) == CHOOSE k \in Idx(Len(locs)) : locs[k + 1] = c

\* One element of the service's response for origin o and destination d.
ServiceElement(w, locs, o, d) ==
    LET i == PosOf(locs, o)
        j == PosOf(locs, d)
    IN IF <<i, j>> \in w.bad
       THEN [status |-> "ZERO_RESULTS", value |-> -1]
       ELSE [status |-> "OK", value |-> TableOf(w.table)[i + 1][j + 1]]

\* gmaps.distance_matrix(origins, destinations): rows[i]["elements"][j] is the
\* element for the i-th origin and the j-th destination of the call.
ServiceResponse(w, locs, origins, destinations) ==
    [il \in 1 .. Len(origins) |->
        [jl \in 1 .. Len(destinations) |->
            ServiceElement(w, locs, origins[il], destinations[jl])]]

\* ------------------------------------------------------------------ state
VARIABLES
    pc,                     \* where the request is: "request", "build",
                            \* "assembled", "built", "done", "error", "hang";
                            \* "extract", "extracted" in the extraction loop
    places,                 \* the places of the request, in search order
    world,                  \* what the service answers (environment)
    service_failed,         \* a block query of the request has failed
    BATCH_SIZE,             \* calculate_distance_matrix: local BATCH_SIZE
    i_start, j_start,       \* calculate_distance_matrix: the block loops
    dm,                     \* calculate_distance_matrix: local distance_matrix
    written,                \* cells of dm assigned so far by the build
    queries,                \* block queries the running build has issued
    distance_from_station,  \* Place.distance_from_station, per place
    distance_matrix,        \* the matrix returned to the pipeline, <<>> if none
    status,                 \* status of the last model.optimize call
    route,                  \* the Route returned by optimize_route, <<>> if none
    solves,                 \* model.optimize calls made for the request
    error,                  \* the stage whose ValueError the pipeline reported
    x,                      \* extraction: the solver's arc values x[i][j].x
    current, visit_order, visited,  \* extraction: locals of the loop
    first_status, first_route   \* status and Route of the first of two
                            \* optimize_route calls on one matrix

vars ==
    <<pc, places, world, service_failed, BATCH_SIZE, i_start, j_start, dm,
      written, queries,
      distance_from_station, distance_matrix, status, route, solves, error,
      x, current, visit_order, visited, first_status, first_route>>

builderVars == <<BATCH_SIZE, i_start, j_start, dm, written, queries>>

optimizerVars == <<status, route, solves>>

extractionVars == <<x, current, visit_order, visited>>

rerunVars == <<first_status, first_route>>

\* num_locations of the request.
NumLocations == Len(places) + 1

locations == LocationsOf(places)

\* ------------------------------------------------ calculate_distance_matrix
\* np.zeros((num_locations, num_locations))
Zeros(n) == [i \in Idx(n) |-> [j \in Idx(n) |-> 0]]

\* locations[a:b]
Slice(locs, a, b) == SubSeq(locs, a + 1, b)

\* CellValue without the i_global == j_global branch: the diagonal takes what
\* the service reports.
CellValueNoDiagonal(result, i_local, j_local, i_global, j_global) ==
    LET element == result[i_local + 1][j_local + 1]
    IN IF element.status = "OK" THEN element.value ELSE Sentinel

\* The value assigned to distance_matrix[i_global][j_global].
CellValue(result, i_local, j_local, i_global, j_global) ==
    IF i_global = j_global
    THEN 0
    ELSE LET element == result[i_local + 1][j_local + 1]
         IN IF element.status = "OK" THEN element.value ELSE Sentinel

\* The two enumerate loops over one block's cells.
WriteBlock(m, result, i0, i1, j0, j1) ==
    [i \in DOMAIN m |->
        [j \in DOMAIN m[i] |->
            IF i \in i0 .. (i1 - 1) /\ j \in j0 .. (j1 - 1)
            THEN CellValue(result, i - i0, j - j0, i, j)
            ELSE m[i][j]]]

BlockEnd(start, batch, n) == Min2(start + batch, n)

\* NextBlock with the two ranges advanced together: only the blocks on the
\* diagonal are queried.
NextBlockDiagonal(i0, j0, batch, n) ==
    IF i0 + batch < n THEN <<i0 + batch, j0 + batch>> ELSE <<n, 0>>

\* The block the loops turn to after (i0, j0): the inner range over j_start,
\* then the outer range over i_start; <<n, 0>> once both ranges are exhausted.
NextBlock(i0, j0, batch, n) ==
    IF j0 + batch < n THEN <<i0, j0 + batch>>
    ELSE IF i0 + batch < n THEN <<i0 + batch, 0>>
    ELSE <<n, 0>>

\* Entry of calculate_distance_matrix up to the first block.
StartBuild ==
    /\ pc = "request"
    /\ \E b \in 1 .. MaxBatch : BATCH_SIZE' = b
    /\ dm' = Zeros(NumLocations)
    /\ i_start' = 0
    /\ j_start' = 0
    /\ written' = {}
    /\ queries' = <<>>
    /\ pc' = "build"
    /\ UNCHANGED <<places, world, service_failed, distance_from_station,
                   distance_matrix, optimizerVars, error, extractionVars,
                   rerunVars>>

\* One pass of the inner loop: the block query succeeds and its cells are
\* written to their global positions.
QueryBlock ==
    /\ pc = "build"
    /\ LET n == NumLocations
           i_end == BlockEnd(i_start, BATCH_SIZE, n)
           j_end == BlockEnd(j_start, BATCH_SIZE, n)
           origins_batch == Slice(locations, i_start, i_end)
           destinations_batch == Slice(locations, j_start, j_end)
           result == ServiceResponse(world, locations, origins_batch,
                                     destinations_batch)
           nxt == NextBlock(i_start, j_start, BATCH_SIZE, n)
       IN /\ queries' = Append(queries, [origins |-> origins_batch,
                                         destinations |-> destinations_batch])
          /\ dm' = WriteBlock(dm, result, i_start, i_end, j_start, j_end)
          /\ written' = written \cup
                 ((i_start .. (i_end - 1)) \X (j_start .. (j_end - 1)))
          /\ i_start' = nxt[1]
          /\ j_start' = nxt[2]
          /\ pc' = IF nxt[1] < n THEN "build" ELSE "assembled"
    /\ UNCHANGED <<places, world, service_failed, BATCH_SIZE,
                   distance_from_station, distance_matrix, optimizerVars,
                   error, extractionVars, rerunVars>>

\* QueryFails with the exception swallowed: the matrix filled so far is
\* returned as if the build had ended.
QueryFailsSwallowed ==
    /\ pc = "build"
    /\ service_failed' = TRUE
    /\ pc' = "built"
    /\ distance_matrix' = dm
    /\ UNCHANGED <<places, world, builderVars, distance_from_station,
                   optimizerVars, error, extractionVars, rerunVars>>

\* The block query raises, or its response cannot be read: the except clause
\* turns it into ValueError and the pipeline's except clause reports it
\* (st.error).  Nothing is returned; the locals stay as the raise left them.
QueryFails ==
    /\ pc = "build"
    /\ service_failed' = TRUE
    /\ pc' = "error"
    /\ error' = "distance"
    /\ UNCHANGED <<places, world, builderVars, distance_from_station,
                   distance_matrix, optimizerVars, extractionVars, rerunVars>>

\* After the loops: annotate every place and return the matrix.
FinishBuild ==
    /\ pc = "assembled"
    /\ distance_from_station' =
           [idx \in 1 .. Len(places) |-> dm[0][idx]]
    /\ distance_matrix' = dm
    /\ pc' = "built"
    /\ BATCH_SIZE' = 0
    /\ i_start' = 0
    /\ j_start' = 0
    /\ dm' = <<>>
    /\ written' = {}
    /\ queries' = <<>>
    /\ UNCHANGED <<places, world, service_failed, optimizerVars, error,
                   extractionVars, rerunVars>>

\* A request: the station and its places are known, nothing is computed yet.
InitRequest(nmax) ==
    /\ pc = "request"
    /\ \E n \in 2 .. nmax :
          /\ places = PlacesOf(n)
          /\ world \in Worlds(n)
          /\ distance_from_station = [idx \in 1 .. (n - 1) |-> NoDistance]
    /\ service_failed = FALSE
    /\ BATCH_SIZE = 0
    /\ i_start = 0
    /\ j_start = 0
    /\ dm = <<>>
    /\ written = {}
    /\ queries = <<>>
    /\ distance_matrix = <<>>
    /\ status = "LOADED"
    /\ route = <<>>
    /\ solves = 0
    /\ error = "none"
    /\ x = <<>>
    /\ current = 0
    /\ visit_order = <<>>
    /\ visited = {}
    /\ first_status = "LOADED"
    /\ first_route = <<>>

\* The matrix builder alone.
InitBuild == InitRequest(MaxLoc)

NextBuild == StartBuild \/ QueryBlock \/ QueryFails \/ FinishBuild

SpecBuild == InitBuild /\ [][NextBuild]_vars

\* ----------------------------------------------------------- optimize_route
\* seq[k] of a Python list.
At(seq, k) == seq[k + 1]

\* Constraint 1 for location i: exactly one arc leaves i (x[i][i] excluded).
RowsFor(i, n) ==
    {r \in [Idx(n) -> {0, 1}] : SumExcept(r, n, i) = 1}

\* The arc selections whose rows 0..k-1 each satisfy constraint 1.
RECURSIVE RowsUpTo(_, _)
RowsUpTo(k, n) ==
    IF k = 0 THEN {<<>>}
    ELSE {IF k = 1 THEN (0 :> r) ELSE (p @@ ((k - 1) :> r)) :
             p \in RowsUpTo(k - 1, n), r \in RowsFor(k - 1, n)}

\* Constraint 1: sum of x[i][j] over j /= i is 1, for every i.
OutDegree(xs, n) ==
    \A i \in Idx(n) : SumExcept(xs[i], n, i) = 1

\* Constraint 2: sum of x[i][j] over i /= j is 1, for every j.
InDegree(xs, n) ==
    \A j \in Idx(n) :
        SumExcept([i \in Idx(n) |-> xs[i][j]], n, j) = 1

\* The model without constraint 3.
MTZMissing(xs, u, n) == TRUE

\* Constraint 3 (MTZ): u[i] - u[j] + n * x[i][j] <= n - 1 for i /= j in 1..n-1.
MTZ(xs, u, n) ==
    \A i \in 1 .. (n - 1) : \A j \in 1 .. (n - 1) :
        i /= j => u[i] - u[j] + n * xs[i][j] <= n - 1

\* u = [add_var(INTEGER, lb=1, ub=n-1) for i in range(n)]
OrderValues(n) == [Idx(n) -> 1 .. (n - 1)]

\* The arc selections that satisfy the model's constraints.
FeasibleSet(n) ==
    {xs \in RowsUpTo(n, n) :
        /\ OutDegree(xs, n)
        /\ InDegree(xs, n)
        /\ \E u \in OrderValues(n) : MTZ(xs, u, n)}

FeasibleSolutions == [n \in 2 .. MaxN |-> FeasibleSet(n)]

\* Objective with the matrix indexed [j][i].
ObjectiveTransposed(d, xs, n) ==
    SumUpTo([c \in Idx(n * n) |->
                d[c % n][c \div n] * xs[c \div n][c % n]], n * n - 1)

\* The objective: sum of distance_matrix[i][j] * x[i][j] over all i, j.
Objective(d, xs, n) ==
    SumUpTo([c \in Idx(n * n) |->
                d[c \div n][c % n] * xs[c \div n][c % n]], n * n - 1)

\* OPTIMAL reported for any feasible selection.
OptimalSolutionsUnproven(d, n) == FeasibleSolutions[n]

\* sense = MINIMIZE: the feasible selections of least objective.
OptimalSolutions(d, n) ==
    LET F == FeasibleSolutions[n]
        obj == [xs \in F |-> Objective(d, xs, n)]
        values == {obj[xs] : xs \in F}
        best == CHOOSE v \in values : \A w \in values : v <= w
    IN {xs \in F : obj[xs] = best}

\* What model.optimize(max_seconds = 30) can hand back: a proven optimum, the
\* incumbent when the time runs out, or nothing.
SolverOutcomes(d, n) ==
    LET F == FeasibleSolutions[n]
    IN IF F = {}
       THEN {[status |-> "INFEASIBLE", x |-> <<>>]}
       ELSE {[status |-> "OPTIMAL", x |-> xs] : xs \in OptimalSolutions(d, n)}
            \cup {[status |-> "FEASIBLE", x |-> xs] : xs \in F}
            \cup {[status |-> "NO_SOLUTION_FOUND", x |-> <<>>]}

\* The status check with FEASIBLE left out.
AcceptedOptimalOnly(st) == st = "OPTIMAL"

\* status is OPTIMAL or FEASIBLE.
Accepted(st) == st = "OPTIMAL" \/ st = "FEASIBLE"

\* The j the for loop breaks at: j not in visited and x[current][j].x > 0.5.
ArcsFrom(xs, cur, vis, n) ==
    {j \in Idx(n) : j \notin vis /\ 2 * xs[cur][j] > 1}

FirstOf(S) == CHOOSE j \in S : \A k \in S : j <= k

\* The while loop run to its end; <<>> when a pass finds no j, after which
\* the loop repeats that pass for ever.
RECURSIVE ExtractOrder(_, _, _, _)
ExtractOrder(xs, n, cur, order) ==
    LET vis == {order[k] : k \in 1 .. Len(order)}
        arcs == ArcsFrom(xs, cur, vis, n)
    IN IF Cardinality(vis) >= n THEN order
       ELSE IF arcs = {} THEN <<>>
       ELSE ExtractOrder(xs, n, FirstOf(arcs), Append(order, FirstOf(arcs)))

\* optimized_places = [places[i-1] for i in visit_order[1:]]
OptimizedPlaces(pl, order) ==
    [k \in 1 .. (Len(order) - 1) |-> At(pl, Tail(order)[k] - 1)]

\* SegmentDistances without the leg back to the station.
SegmentDistancesNoReturn(d, order) ==
    [i \in 1 .. (Len(order) - 1) |-> d[At(order, i - 1)][At(order, i)]]

\* segment_distances, the return leg to the station appended.
SegmentDistances(d, order) ==
    [i \in 1 .. (Len(order) - 1) |-> d[At(order, i - 1)][At(order, i)]]
        \o <<d[order[Len(order)]][0]>>

\* AssembleRoute with the total summed after the return leg is cut off.
AssembleRouteTotalAfterCut(pl, d, order) ==
    LET segment_distances == SegmentDistances(d, order)
        segment_distances_without_return ==
            SubSeq(segment_distances, 1, Len(segment_distances) - 1)
    IN [places |-> OptimizedPlaces(pl, order),
        total_distance |-> SumSeq(segment_distances_without_return),
        segment_distances |-> segment_distances_without_return]

\* The Route built from the visiting order.
AssembleRoute(pl, d, order) ==
    LET segment_distances == SegmentDistances(d, order)
    IN [places |-> OptimizedPlaces(pl, order),
        total_distance |-> SumSeq(segment_distances),
        segment_distances |->
            SubSeq(segment_distances, 1, Len(segment_distances) - 1)]

\* optimize_route(station, places, distance_matrix), called by the pipeline
\* once the matrix is built: solve, extract the order, assemble the Route.
Optimize ==
    /\ pc = "built"
    /\ LET n == Cardinality(DOMAIN distance_matrix)
       IN \E o \in SolverOutcomes(distance_matrix, n) :
             /\ solves' = solves + 1
             /\ status' = o.status
             /\ IF ~Accepted(o.status)
                THEN /\ pc' = "error"
                     /\ error' = "optimize"
                     /\ route' = <<>>
                     /\ UNCHANGED visit_order
                ELSE LET order == ExtractOrder(o.x, n, 0, <<0>>)
                     IN IF order = <<>>
                        THEN /\ pc' = "hang"
                             /\ UNCHANGED <<error, route, visit_order>>
                        ELSE /\ pc' = "done"
                             /\ visit_order' = order
                             /\ route' = AssembleRoute(places,
                                            distance_matrix, order)
                             /\ UNCHANGED error
    /\ UNCHANGED <<places, world, service_failed, builderVars,
                   distance_from_station, distance_matrix, x, current,
                   visited, rerunVars>>

\* The request pipeline: build the matrix, then optimise.
Init == InitRequest(MaxN)

Next == StartBuild \/ QueryBlock \/ QueryFails \/ FinishBuild \/ Optimize

Spec == Init /\ [][Next]_vars

\* ------------------------------------------------ the extraction loop alone
\* The matrix calculate_distance_matrix returns when every query succeeds
\* and one block covers all locations.
SingleBlockMatrix(w, locs) ==
    WriteBlock(Zeros(Len(locs)),
               ServiceResponse(w, locs, locs, locs),
               0, Len(locs), 0, Len(locs))

\* optimize_route just after the status check: the solver has handed back an
\* arc selection that satisfies the constraints.
InitSolve ==
    /\ pc = "extract"
    /\ \E n \in 2 .. MaxN :
          /\ places = PlacesOf(n)
          /\ x \in FeasibleSolutions[n]
          /\ distance_from_station =
                 [idx \in 1 .. (n - 1) |-> At(PythonTspTable, 0)[idx + 1]]
    /\ world = [table |-> "python_tsp", bad |-> {}]
    /\ distance_matrix = SingleBlockMatrix(world, locations)
    /\ status \in {"OPTIMAL", "FEASIBLE"}
    /\ current = 0
    /\ visit_order = <<0>>
    /\ visited = {0}
    /\ service_failed = FALSE
    /\ BATCH_SIZE = 0
    /\ i_start = 0
    /\ j_start = 0
    /\ dm = <<>>
    /\ written = {}
    /\ queries = <<>>
    /\ route = <<>>
    /\ solves = 1
    /\ error = "none"
    /\ first_status = "LOADED"
    /\ first_route = <<>>

\* One pass of the while body: the for loop appends the first j that is not
\* visited and has x[current][j].x > 0.5, or ends without a break.
ExtractStep ==
    /\ pc = "extract"
    /\ LET n == Cardinality(DOMAIN distance_matrix)
           arcs == ArcsFrom(x, current, visited, n)
       IN /\ Cardinality(visited) < n
          /\ IF arcs = {}
             THEN UNCHANGED <<current, visit_order, visited>>
             ELSE /\ visit_order' = Append(visit_order, FirstOf(arcs))
                  /\ visited' = visited \cup {FirstOf(arcs)}
                  /\ current' = FirstOf(arcs)
    /\ UNCHANGED <<pc, places, world, service_failed, builderVars,
                   distance_from_station, distance_matrix, optimizerVars,
                   error, x, rerunVars>>

\* The while condition len(visited) < n fails: the loop is left.
ExtractDone ==
    /\ pc = "extract"
    /\ Cardinality(visited) >= Cardinality(DOMAIN distance_matrix)
    /\ pc' = "extracted"
    /\ UNCHANGED <<places, world, service_failed, builderVars,
                   distance_from_station, distance_matrix, optimizerVars,
                   error, extractionVars, rerunVars>>

NextSolve == ExtractStep \/ ExtractDone

SpecSolve == InitSolve /\ [][NextSolve]_vars

\* The loop is one thread running without interruption: a pass that can be
\* taken is taken.
FairSolve == SpecSolve /\ WF_vars(ExtractStep) /\ WF_vars(ExtractDone)

\* ----------------------------------------------- optimize_route run twice
\* optimize_route is called once more with the same station, places and
\* distance matrix; the first call's status and Route are kept to compare.
Rerun ==
    /\ pc = "done"
    /\ first_status = "LOADED"
    /\ first_status' = status
    /\ first_route' = route
    /\ pc' = "built"
    /\ status' = "LOADED"
    /\ route' = <<>>
    /\ visit_order' = <<>>
    /\ UNCHANGED <<places, world, service_failed, builderVars,
                   distance_from_station, distance_matrix, solves, error, x,
                   current, visited>>

InitRerun == InitRequest(MaxRerunN)

NextRerun ==
    StartBuild \/ QueryBlock \/ QueryFails \/ FinishBuild \/ Optimize \/ Rerun

SpecRerun == InitRerun /\ [][NextRerun]_vars

\* ================================================================== claims
\* What the service answers for the pair (i, j), as the matrix must hold it.
ExpectedCell(w, i, j) ==
    IF i = j THEN 0
    ELSE IF <<i, j>> \in w.bad THEN 999999
    ELSE TableOf(w.table)[i + 1][j + 1]

\* q asks for a contiguous, non-empty run of at most b locations.
ContiguousBlock(batch, b) ==
    \E a \in Idx(Len(locations)) :
        /\ Len(batch) >= 1
        /\ Len(batch) <= b
        /\ a + Len(batch) <= Len(locations)
        /\ batch = Slice(locations, a, a + Len(batch))

\* C6: with n locations and batch limit B the build issues exactly
\* ceil(n/B)^2 block queries, each for a contiguous block of at most B origins
\* and at most B destinations, and the matrix it assembles is the matrix a
\* single block assembles from the same answers; B = 2 and n = 5 give 9.
C6_BatchingCorrect ==
    /\ pc \in {"build", "assembled"} =>
          \A q \in 1 .. Len(queries) :
              /\ ContiguousBlock(queries[q].origins, BATCH_SIZE)
              /\ ContiguousBlock(queries[q].destinations, BATCH_SIZE)
    /\ pc = "assembled" =>
          /\ Len(queries) = CeilDiv(NumLocations, BATCH_SIZE)
                              * CeilDiv(NumLocations, BATCH_SIZE)
          /\ dm = SingleBlockMatrix(world, locations)
          /\ (NumLocations = 5 /\ BATCH_SIZE = 2) => Len(queries) = 9

\* Five locations, batch limit 2: nine queries, the last for one origin and
\* one destination, the cells at their global positions.
C6_Witness ==
    /\ pc = "assembled"
    /\ NumLocations = 5
    /\ BATCH_SIZE = 2
    /\ Len(queries) = 9
    /\ Len(queries[9].origins) = 1
    /\ world.table = "oneway"
    /\ dm[4][3] = 125

\* C7: when every block query succeeds the matrix is n x n, every cell has
\* been written, and cell [i][j] is 0 on the diagonal whatever the service
\* reported, the reported distance if the cell's status is OK, and 999999
\* otherwise; a not-OK cell does not stop the build nor touch another cell.
C7_CellsAsReported ==
    /\ pc = "build" => ENABLED QueryBlock
    /\ pc = "assembled" =>
          /\ written = Idx(NumLocations) \X Idx(NumLocations)
          /\ \A i, j \in Idx(NumLocations) :
                dm[i][j] = ExpectedCell(world, i, j)
    /\ pc = "built" =>
          /\ DOMAIN distance_matrix = Idx(NumLocations)
          /\ \A i \in Idx(NumLocations) :
                DOMAIN distance_matrix[i] = Idx(NumLocations)
          /\ \A i, j \in Idx(NumLocations) :
                distance_matrix[i][j] = ExpectedCell(world, i, j)

\* A matrix returned with a sentinel cell, its neighbours as reported, and a
\* zero diagonal although the service reported 4 m and 5 m there.
C7_Witness ==
    /\ pc = "built"
    /\ world = [table |-> "oneway", bad |-> {<<1, 2>>}]
    /\ distance_matrix[1][2] = 999999
    /\ distance_matrix[2][1] = 135
    /\ distance_matrix[1][1] = 0
    /\ distance_matrix[2][2] = 0

\* C8: if a block query fails, at whichever block, the build raises and
\* returns no matrix, no place's distance_from_station is set, and
\* optimize_route is never started for the request.
C8_BuildFailureAborts ==
    service_failed =>
        /\ pc = "error"
        /\ error = "distance"
        /\ distance_matrix = <<>>
        /\ \A idx \in 1 .. Len(places) :
              distance_from_station[idx] = NoDistance
        /\ solves = 0
        /\ status = "LOADED"
        /\ route = <<>>

\* The fourth block query failed after three blocks had filled cells.
C8_Witness ==
    /\ service_failed
    /\ pc = "error"
    /\ Len(queries) = 3
    /\ written /= {}
    /\ distance_matrix = <<>>

\* The closed tours over n locations: the orders that start at 0 and hold
\* every index once.
ClosedTours ==
    [n \in 2 .. MaxN |->
        {v \in [1 .. n -> Idx(n)] :
            /\ v[1] = 0
            /\ \A a, b \in 1 .. n : a /= b => v[a] /= v[b]}]

\* The leg taken after position k of the tour v, the last one back to v[1].
LegAfter(v, k) == <<v[k], IF k < Len(v) THEN v[k + 1] ELSE v[1]>>

\* Length of the closed tour v: all its legs, the return included.
TourCost(d, v) ==
    SumSeq([k \in 1 .. Len(v) |-> d[LegAfter(v, k)[1]][LegAfter(v, k)[2]]])

MinTourCost(d) ==
    LET costs == {TourCost(d, v) : v \in ClosedTours[Cardinality(DOMAIN d)]}
    IN CHOOSE c \in costs : \A e \in costs : c <= e

MipMatrix == [i \in Idx(3) |-> [j \in Idx(3) |-> MipTable[i + 1][j + 1]]]

\* C1: when the solver reports OPTIMAL, total_distance is the least length
\* of a closed tour from 0 through every index; 450 for the 3 x 3 example.
C1_OptimalIsMinimum ==
    (pc = "done" /\ status = "OPTIMAL") =>
        /\ route.total_distance = MinTourCost(distance_matrix)
        /\ distance_matrix = MipMatrix => route.total_distance = 450

\* The example matrix solved to optimality, by the tour 0, 2, 1.
C1_Witness ==
    /\ pc = "done"
    /\ status = "OPTIMAL"
    /\ distance_matrix = MipMatrix
    /\ visit_order = <<0, 2, 1>>
    /\ route.total_distance = 450

\* The loop's state: the order holds the visited indices, each once, starting
\* at 0; a pass that is due finds an arc; the order left is a permutation.
C2_ExtractionInv ==
    LET n == NumLocations
    IN /\ pc \in {"extract", "extracted"} =>
             /\ visit_order[1] = 0
             /\ Len(visit_order) = Cardinality(visited)
             /\ visited = {visit_order[k] : k \in 1 .. Len(visit_order)}
             /\ visited \subseteq Idx(n)
             /\ current = visit_order[Len(visit_order)]
       /\ (pc = "extract" /\ Cardinality(visited) < n) =>
             ArcsFrom(x, current, visited, n) /= {}
       /\ pc = "extracted" =>
             /\ Len(visit_order) = n
             /\ visited = Idx(n)

\* C2: for every arc selection that satisfies the out-degree, in-degree and
\* MTZ constraints (self-loop variables free), the extraction loop ends and
\* visit_order is a permutation of 0..n-1 that starts with 0.
C2_ExtractionTerminates ==
    []C2_ExtractionInv /\ <>(pc = "extracted")

\* Four locations, the self-loop variable x[2][2] set, the order 0, 3, 1, 2.
C2_Witness ==
    /\ pc = "extracted"
    /\ NumLocations = 4
    /\ x[2][2] = 1
    /\ x[0][0] = 0
    /\ visit_order = <<0, 3, 1, 2>>

\* C3 as stated: for n = 2 the tour is [0, 1] and the total is twice
\* distance[0][1].
C3_TwiceTheOutwardLeg ==
    (pc = "done" /\ NumLocations = 2) =>
        /\ visit_order = <<0, 1>>
        /\ route.total_distance = 2 * distance_matrix[0][1]

\* C3 amended: for n = 2 the tour is [0, 1], the one place is the route, and
\* the total is distance[0][1] + distance[1][0], which is twice distance[0][1]
\* when the two directions agree.
C3_OutAndBack ==
    (pc = "done" /\ NumLocations = 2) =>
        /\ visit_order = <<0, 1>>
        /\ route.places = places
        /\ route.segment_distances = <<distance_matrix[0][1]>>
        /\ route.total_distance =
               distance_matrix[0][1] + distance_matrix[1][0]
        /\ distance_matrix[0][1] = distance_matrix[1][0] =>
               route.total_distance = 2 * distance_matrix[0][1]

\* Station and one place, 120 m out and 180 m back.
C3_Witness ==
    /\ pc = "done"
    /\ NumLocations = 2
    /\ distance_matrix[0][1] = 120
    /\ distance_matrix[1][0] = 180
    /\ route.total_distance = 300

\* The closed tour v takes a leg the service could not route.
UsesSentinelLeg(v) == \E k \in 1 .. Len(v) : LegAfter(v, k) \in world.bad

\* C4: when the matrix holds sentinel entries and some closed tour avoids
\* them, the tour returned at optimality takes no sentinel leg.
C4_OptimumAvoidsSentinel ==
    ( /\ pc = "done"
      /\ status = "OPTIMAL"
      /\ \E cell \in world.bad : cell[1] /= cell[2]
      /\ \E v \in ClosedTours[NumLocations] : ~UsesSentinelLeg(v) )
    => ~UsesSentinelLeg(visit_order)

\* C5 as stated: a second run on the same matrix returns the same
\* total_distance, whichever accepted solution each run was handed.
C5_SameTotalEveryRun ==
    (pc = "done" /\ first_status /= "LOADED") =>
        route.total_distance = first_route.total_distance

\* C5 amended: two runs on the same matrix that both end OPTIMAL return the
\* same total_distance, also when they return different tours.
C5_SameTotalWhenBothOptimal ==
    (pc = "done" /\ first_status = "OPTIMAL" /\ status = "OPTIMAL") =>
        route.total_distance = first_route.total_distance

\* Two optimal runs that visit the places in different orders.
C5_Witness ==
    /\ pc = "done"
    /\ first_status = "OPTIMAL"
    /\ status = "OPTIMAL"
    /\ first_route.places /= route.places
    /\ first_route.total_distance = route.total_distance

\* C9: a solve that ends neither OPTIMAL nor FEASIBLE raises, yields no Route
\* and is not repeated; OPTIMAL and FEASIBLE yield a Route; a complete
\* matrix, sentinel legs included, always has a feasible tour, so the failure
\* is the time limit's.
C9_SolveFailureIsTerminal ==
    /\ solves <= 1
    /\ pc = "built" =>
          FeasibleSolutions[Cardinality(DOMAIN distance_matrix)] /= {}
    /\ solves = 1 =>
          /\ status \in {"OPTIMAL", "FEASIBLE", "NO_SOLUTION_FOUND"}
          /\ status \in {"OPTIMAL", "FEASIBLE"} =>
                /\ pc = "done"
                /\ error = "none"
                /\ route /= <<>>
                /\ Len(route.places) = Len(places)
          /\ status = "NO_SOLUTION_FOUND" =>
                /\ pc = "error"
                /\ error = "optimize"
                /\ route = <<>>
                /\ ~ENABLED Next

\* The time limit ends the solve of a matrix with a sentinel leg.
C9_Witness ==
    /\ pc = "error"
    /\ error = "optimize"
    /\ solves = 1
    /\ status = "NO_SOLUTION_FOUND"
    /\ distance_matrix[0][1] = 999999

\* C10: for the visiting order v the Route holds the n-1 legs
\* distance[v[k]][v[k+1]] in order without the return leg, their sum plus the
\* return leg distance[v[n-1]][0] as total_distance, and the input places in
\* visiting order, each once.
C10_RouteAssembly ==
    pc = "done" =>
        LET v == visit_order
            n == Len(v)
            d == distance_matrix
        IN /\ n = NumLocations
           /\ Len(route.segment_distances) = n - 1
           /\ \A k \in 1 .. (n - 1) :
                 route.segment_distances[k] = d[v[k]][v[k + 1]]
           /\ route.total_distance =
                 SumSeq(route.segment_distances) + d[v[n]][0]
           /\ Len(route.places) = n - 1
           /\ \A k \in 1 .. (n - 1) : route.places[k] = places[v[k + 1]]
           /\ \A q \in 1 .. Len(places) :
                 Cardinality({k \in 1 .. (n - 1) :
                                 route.places[k] = places[q]}) = 1

\* Four locations visited in the order 0, 2, 3, 1 over one-way distances.
C10_Witness ==
    /\ pc = "done"
    /\ world = [table |-> "oneway", bad |-> {}]
    /\ visit_order = <<0, 2, 3, 1>>
    /\ route.places = <<"B", "C", "A">>
    /\ route.segment_distances = <<310, 75, 340>>
    /\ route.total_distance = 905

====
